---- MODULE Spec2Model ----
(***************************************************************************)
(* neusomatic/python/scan_alignments.py: the region partitioner and the    *)
(* restart-safe parallel dispatcher of scan_alignments, with the pool      *)
(* worker run_scan_alignments.                                             *)
(*                                                                         *)
(* A BED file's content is a sequence of intervals <<chrom, start, end>>.  *)
(* A file that may be absent is a sequence of length 0 (absent) or 1 (its  *)
(* content).  A path is a record: region_<k>.bed of the work directory is  *)
(* [kind |-> "region", id |-> k], a file of the caller is                   *)
(* [kind |-> "caller", id |-> j]; a file of work.<i> is <<i, name>>.       *)
(***************************************************************************)
EXTENDS Integers, Sequences, FiniteSets, TLC

\* ---- bounds of the model
MaxThreads == 2
MaxListLen == 2
MaxDispatches == 2

\* ---- program constant: bases per split unit (line 101)
SplitGranularity == 10000000

VARIABLES
    workDir,            \* the top-level work directory exists
    allRegions,         \* work/all_regions.bed (absent or its content)
    regionFiles,        \* regionFiles[k+1] is work/region_<k>.bed
    unitDir,            \* unitDir[i] is work/work.<i>
    pc,                 \* "idle", "pool" (inside map_async().get()), "returned", "raised"
    restart, num_threads, binaryExists, regions_bed, supplied,   \* arguments of the call
    split_region_files, \* the list dispatched (paths)
    map_args, not_done, all_outputs, outputs,   \* locals of scan_alignments
    next_task,          \* next index of map_args the pool hands out
    proc,               \* proc[w]: the pool process w and its position in run_scan_alignments
    result,             \* what the call returned (absent when it raised or is running)
    ncalls,             \* number of calls so far
    \* ---- observations of the current call
    atCall,             \* the disk when the call started
    globbed,            \* what glob returned (line 89), absent if glob was not called
    requested,          \* num_split passed to split_region, absent if it was not called
    started,            \* units a worker has entered in this call
    finished,           \* tasks (indices of map_args) in the order their workers finished
    binaryRuns,         \* units for which the external binary was invoked in this call
    prev                \* how the previous call ended

disk == <<workDir, allRegions, regionFiles, unitDir>>
callArgs == <<restart, num_threads, binaryExists, regions_bed, supplied>>
locals == <<split_region_files, map_args, not_done, all_outputs>>
obs == <<atCall, globbed, requested, prev>>
vars == <<workDir, allRegions, regionFiles, unitDir, pc, restart, num_threads,
          binaryExists, regions_bed, supplied, split_region_files, map_args,
          not_done, all_outputs, outputs, next_task, proc, result, ncalls,
          atCall, globbed, requested, started, finished, binaryRuns, prev>>

\* ---------------------------------------------------------------- helpers
Max(a, b) == IF a >= b THEN a ELSE b

RECURSIVE SumSeq(_)
SumSeq(s) == IF s = <<>> THEN 0 ELSE Head(s) + SumSeq(Tail(s))

\* ---------------------------------------------------------------- inputs
\* The interval the BED inputs are made of; the BAM header gives a longer one.
ShortInterval == <<1, 0, 9>>
InputIntervals == <<ShortInterval>>

\* regions_bed after sort().merge(d=0) (lines 76-77): sorted, non-overlapping.
BedRegionSets == {SubSeq(InputIntervals, 1, n) : n \in 0..Len(InputIntervals)}

\* Contig lengths of the BAM header (samfile.lengths).
HeaderLengths == {<<15000001>>}

\* lines 79-83: one interval [1, length - 1] per contig.
BamIntervals(lengths) == [c \in 1..Len(lengths) |-> <<c, 1, lengths[c] - 1>>]

\* regions_bed after lines 75-83, from a BED file or from the BAM header.
RegionSets == BedRegionSets \cup {BamIntervals(l) : l \in HeaderLengths}

\* The caller's own split files: one with an interval, one with none.
CallerFiles == <<(<<ShortInterval>>), <<>>>>
CallerPath(j) == [kind |-> "caller", id |-> j]
RegionPath(k) == [kind |-> "region", id |-> k]

\* split_region_files arguments: the default [] and the caller's lists.
SuppliedLists ==
    UNION {[1..n -> {CallerPath(j) : j \in 1..Len(CallerFiles)}] : n \in 0..MaxListLen}

\* ---------------------------------------------------------------- disk
OutputNames == {"candidates.vcf", "count.bed.gz", "region.bed"}
NoDir == [exists |-> FALSE, files |-> {}, region |-> <<>>]
EmptyDir == [exists |-> TRUE, files |-> {}, region |-> <<>>]

\* pybedtools.BedTool(path): the intervals of the file at path.
ReadBed(path, rf) ==
    IF path.kind = "caller" THEN CallerFiles[path.id] ELSE rf[path.id + 1][1]

\* os.path.join(work, "work.{}".format(i), name)
UnitPath(i, name) == <<i, name>>

\* line 54 / lines 124-127: the result triple of work.<i>.
Triple(i) ==
    <<UnitPath(i, "candidates.vcf"), UnitPath(i, "count.bed.gz"), UnitPath(i, "region.bed")>>

\* ---------------------------------------------------------------- partitioner
\* line 86: sum of end - start + 1 over regions_bed.
total_len(rb) == SumSeq([k \in 1..Len(rb) |-> rb[k][3] - rb[k][2] + 1])

\* pybedtools Interval.length (line 91): end - start.
IntervalLength(iv) == iv[3] - iv[2]

\* lines 90-91: sum of the interval lengths of every file glob found.
spilt_total_len(paths, rf) ==
    SumSeq([p \in 1..Len(paths) |->
        SumSeq([k \in 1..Len(ReadBed(paths[p], rf)) |->
            IntervalLength(ReadBed(paths[p], rf)[k])])])

\* line 92: spilt_total_len >= 0.98 * total_len, with 0.98 = 49/50.
CoversEnough(paths, rf, rb) == spilt_total_len(paths, rf) * 50 >= 49 * total_len(rb)

\* lines 94-96: int(os.path.basename(x).split(".bed")[0].split("_")[1])
ChunkIndex(path) == path.id

KeepGlobOrder(paths) == paths

\* lines 93-96: sorted(split_region_files, key=chunk index)
RECURSIVE SortByChunkIndex(_)
SortByChunkIndex(paths) ==
    IF paths = <<>> THEN <<>>
    ELSE LET m == CHOOSE k \in 1..Len(paths) :
                    \A j \in 1..Len(paths) : ChunkIndex(paths[k]) <= ChunkIndex(paths[j])
         IN <<paths[m]>> \o SortByChunkIndex(
                [k \in 1..(Len(paths) - 1) |-> IF k < m THEN paths[k] ELSE paths[k + 1]])

NumSplitNoMax(tl, nt) == ((tl \div SplitGranularity) \div nt) * nt

\* lines 101-102 under Python 2: total_len / 10000000 and (...) / num_threads are
\* integer divisions of ints, so np.ceil is applied to an integer.
num_split(tl, nt) == Max(((tl \div SplitGranularity) \div nt) * nt, nt)

\* split_bed.split_region (line 103): n files region_0.bed .. region_<n-1>.bed whose
\* union is the input; interval j goes to chunk (j - 1) mod n.
RECURSIVE PickChunk(_, _, _, _)
PickChunk(rb, n, c, j) ==
    IF j > Len(rb) THEN <<>>
    ELSE (IF (j - 1) % n = c THEN <<rb[j]>> ELSE <<>>) \o PickChunk(rb, n, c, j + 1)

split_region(rb, n) == [k \in 1..n |-> PickChunk(rb, n, k - 1, 1)]

\* glob.glob(os.path.join(work, "region_*.bed")): the existing files in any order.
GlobOrders(rf) ==
    {o \in [1..Len(rf) -> {RegionPath(k) : k \in 0..(Len(rf) - 1)}] :
        \A x, y \in 1..Len(rf) : x # y => o[x] # o[y]}

\* lines 88-96: the split list after the restart scan.
AfterScan(sup, rb, rs, glob, rf) ==
    IF rs THEN sup
    ELSE IF CoversEnough(glob, rf, rb) THEN SortByChunkIndex(glob) ELSE glob


\* ---------------------------------------------------------------- dispatcher
\* Largest split count the inputs can ask for, and the number of work.<i> modelled.
MaxNumSplit ==
    LET all == {num_split(total_len(r), t) : r \in RegionSets, t \in 1..MaxThreads}
    IN CHOOSE m \in all : \A x \in all : x <= m
UnitSlots == Max(MaxListLen, MaxNumSplit)
Units == 0..(UnitSlots - 1)

PendingInverted(rs, dir) == ~rs \/ ~(OutputNames \subseteq dir.files)
PendingDirOnly(rs, dir) == rs \/ ~dir.exists
PendingIgnoresRestart(rs, dir) == ~(OutputNames \subseteq dir.files)

\* lines 113-115: the unit is submitted to a worker.
Pending(rs, dir) == rs \/ ~(OutputNames \subseteq dir.files)

Pend == [ret |-> "pending", val |-> <<>>]
None == [ret |-> "None", val |-> <<>>]
Value(v) == [ret |-> "value", val |-> v]
Idle == [task |-> 0, step |-> "idle"]

\* lines 109-127: the Pending units of the list, in order.
RECURSIVE PendingUnits(_, _, _, _)
PendingUnits(n, rs, dirs, i) ==
    IF i >= n THEN <<>>
    ELSE (IF Pending(rs, dirs[i]) THEN <<i>> ELSE <<>>) \o PendingUnits(n, rs, dirs, i + 1)

MapArgFirstFile(i, srf) == [work |-> i, split_region_file |-> srf[1], num_threads |-> 1]
MapArgSameDir(i, srf) == [work |-> 0, split_region_file |-> srf[i + 1], num_threads |-> 1]

\* lines 119-121: the argument tuple of unit i (work, split_region_file, num_threads).
MapArg(i, srf) == [work |-> i, split_region_file |-> srf[i + 1], num_threads |-> 1]

PartitionedAlways(sup) == TRUE

\* line 74: no split list was supplied, so the partitioner runs.
Partitioned(sup) == sup = <<>>

KeepStale(dir) == dir

\* lines 117-118: shutil.rmtree(work_) of a Pending unit.
RemoveStale(dir) == NoDir

\* lines 65-129: the call up to the creation of the pool.
scan_alignments(sup, rb, rs, nt, bin, glob) ==
    /\ pc \in {"idle", "returned", "raised"}
    /\ ncalls < MaxDispatches
    /\ LET partitioned == Partitioned(sup)                              \* line 74
           scanned == IF partitioned THEN AfterScan(sup, rb, rs, glob, regionFiles) ELSE sup
           fresh == partitioned /\ scanned = <<>>                       \* line 97
           n == num_split(total_len(rb), nt)
           chunks == split_region(rb, n)
           rf == IF fresh
                 THEN [k \in 1..Max(Len(regionFiles), n) |->
                          IF k <= n THEN <<chunks[k]>> ELSE regionFiles[k]]
                 ELSE regionFiles
           srf == IF fresh THEN [k \in 1..n |-> RegionPath(k - 1)] ELSE scanned
           nd == PendingUnits(Len(srf), rs, unitDir, 0)
       IN /\ workDir' = (workDir \/ partitioned)                        \* lines 84-85
          /\ allRegions' = IF fresh THEN <<rb>> ELSE allRegions         \* lines 98-99
          /\ regionFiles' = rf
          /\ split_region_files' = srf
          /\ not_done' = nd
          /\ map_args' = [k \in 1..Len(nd) |-> MapArg(nd[k], srf)]
          /\ unitDir' = [i \in Units |->                                \* lines 117-118
                            IF i < Len(srf) /\ Pending(rs, unitDir[i])
                            THEN RemoveStale(unitDir[i])
                            ELSE unitDir[i]]
          /\ all_outputs' = [i \in 1..Len(srf) |->                      \* lines 110, 124-127
                            IF Pending(rs, unitDir[i - 1]) THEN <<>> ELSE Triple(i - 1)]
          /\ outputs' = [k \in 1..Len(nd) |-> Pend]
          /\ globbed' = IF partitioned /\ ~rs THEN <<glob>> ELSE <<>>
          /\ requested' = IF fresh THEN <<n>> ELSE <<>>
    /\ restart' = rs
    /\ num_threads' = nt
    /\ binaryExists' = bin
    /\ regions_bed' = rb
    /\ supplied' = sup
    /\ next_task' = 1
    /\ proc' = [w \in 1..MaxThreads |-> Idle]
    /\ result' = <<>>
    /\ pc' = "pool"
    /\ ncalls' = ncalls + 1
    /\ atCall' = [workDir |-> workDir, allRegions |-> allRegions,
                  regionFiles |-> regionFiles, unitDir |-> unitDir]
    /\ started' = {}
    /\ finished' = <<>>
    /\ binaryRuns' = {}
    /\ prev' = [pc |-> pc, split |-> split_region_files, result |-> result,
                failed |-> {map_args[k].work : k \in {j \in 1..Len(outputs) : outputs[j] = None}}]

Call ==
    \E sup \in SuppliedLists, rs \in BOOLEAN, nt \in 1..MaxThreads, bin \in BOOLEAN :
        \* regions_bed is ignored when the caller supplies the list (lines 105-107)
        \E rb \in (IF sup = <<>> THEN RegionSets ELSE {<<>>}),
           glob \in (IF sup = <<>> /\ ~rs THEN GlobOrders(regionFiles) ELSE {<<>>}) :
            scan_alignments(sup, rb, rs, nt, bin, glob)

\* ---------------------------------------------------------------- worker
FinishInCompletionOrder(w, k, r) ==
    /\ outputs' = [outputs EXCEPT ![Len(finished) + 1] = r]
    /\ finished' = Append(finished, k)
    /\ proc' = [proc EXCEPT ![w] = Idle]

\* line 131: map_async collects the result of task k at position k of outputs,
\* and the process is free for the next task.
Finish(w, k, r) ==
    /\ outputs' = [outputs EXCEPT ![k] = r]
    /\ finished' = Append(finished, k)
    /\ proc' = [proc EXCEPT ![w] = Idle]

AddFilesRegionFirst(i, names) ==
    [unitDir EXCEPT ![i].files = @ \cup names \cup {"region.bed"}]

\* files written under work.<i> (lines 38-49)
AddFiles(i, names) == [unitDir EXCEPT ![i].files = @ \cup names]

PoolSizeAllProcesses(nt) == MaxThreads

\* line 129: multiprocessing.Pool(num_threads) has num_threads processes.
PoolSize(nt) == nt

\* The pool hands the next task to a free process, which runs lines 29-36.
WorkerStart(w) ==
    /\ pc = "pool"
    /\ w <= PoolSize(num_threads)
    /\ proc[w].step = "idle"
    /\ next_task <= Len(map_args)
    /\ LET k == next_task
           i == map_args[k].work
       IN /\ next_task' = k + 1
          /\ started' = started \cup {i}
          /\ IF ~binaryExists \/ ~workDir          \* line 34 raises, or os.mkdir does
             THEN /\ Finish(w, k, None)
                  /\ UNCHANGED unitDir
             ELSE /\ unitDir' = [unitDir EXCEPT ![i] =
                                    IF @.exists THEN @ ELSE EmptyDir]   \* lines 35-36
                  /\ proc' = [proc EXCEPT ![w] = [task |-> k, step |-> "scan"]]
                  /\ UNCHANGED <<outputs, finished>>
    /\ UNCHANGED <<workDir, allRegions, regionFiles, pc, callArgs, locals, result,
                   ncalls, obs, binaryRuns>>

\* What a failed run of the external binary may leave besides its logs.
ScanLeftovers == {{}, {"candidates.vcf"}}

HasIntervalsAlways(bed) == TRUE

\* line 37: len(pybedtools.BedTool(split_region_file)) > 0
HasIntervals(bed) == Len(bed) > 0

\* lines 37-49: run the binary on a non-empty region file, else write empty outputs.
WorkerScan(w) ==
    /\ pc = "pool"
    /\ proc[w].step = "scan"
    /\ LET k == proc[w].task
           i == map_args[k].work
           bed == ReadBed(map_args[k].split_region_file, regionFiles)
       IN IF HasIntervals(bed)
          THEN /\ binaryRuns' = binaryRuns \cup {i}
               /\ \/ /\ unitDir' = AddFiles(i, {"candidates.vcf", "count.bed",
                                                 "scan.out", "scan.err"})
                     /\ proc' = [proc EXCEPT ![w].step = "index"]
                     /\ UNCHANGED <<outputs, finished>>
                  \/ \E left \in ScanLeftovers :
                     /\ unitDir' = AddFiles(i, left \cup {"scan.out", "scan.err"})
                     /\ Finish(w, k, None)
          ELSE /\ unitDir' = AddFiles(i, {"candidates.vcf", "count.bed"})
               /\ proc' = [proc EXCEPT ![w].step = "index"]
               /\ UNCHANGED <<outputs, finished, binaryRuns>>
    /\ UNCHANGED <<workDir, allRegions, regionFiles, pc, callArgs, locals, result,
                   ncalls, obs, next_task, started>>

\* line 51: pysam.tabix_index compresses count.bed to count.bed.gz and indexes it.
WorkerIndex(w) ==
    /\ pc = "pool"
    /\ proc[w].step = "index"
    /\ LET k == proc[w].task
           i == map_args[k].work
       IN \/ /\ unitDir' = [unitDir EXCEPT ![i].files =
                               (@ \ {"count.bed"}) \cup {"count.bed.gz", "count.bed.gz.tbi"}]
             /\ proc' = [proc EXCEPT ![w].step = "concat"]
             /\ UNCHANGED <<outputs, finished>>
          \/ /\ Finish(w, k, None)
             /\ UNCHANGED unitDir
    /\ UNCHANGED <<workDir, allRegions, regionFiles, pc, callArgs, locals, result,
                   ncalls, obs, next_task, started, binaryRuns>>

\* utils.concatenate_files([split_region_file], region.bed): region.bed gets the
\* content of the split file.
concatenate_files(dir, bed) ==
    [dir EXCEPT !.files = @ \cup {"region.bed"}, !.region = <<bed>>]

\* lines 52-54: write region.bed and return the three paths.
WorkerFinish(w) ==
    /\ pc = "pool"
    /\ proc[w].step = "concat"
    /\ LET k == proc[w].task
           i == map_args[k].work
           bed == ReadBed(map_args[k].split_region_file, regionFiles)
       IN \/ /\ unitDir' = [unitDir EXCEPT ![i] = concatenate_files(@, bed)]
             /\ Finish(w, k, Value(Triple(i)))
          \/ /\ Finish(w, k, None)
             /\ UNCHANGED unitDir
    /\ UNCHANGED <<workDir, allRegions, regionFiles, pc, callArgs, locals, result,
                   ncalls, obs, next_task, started, binaryRuns>>

\* ---------------------------------------------------------------- aggregation
MergeByPosition(ao, nd, outs) ==
    [i \in 1..Len(ao) |-> IF i <= Len(outs) THEN outs[i].val ELSE ao[i]]

\* lines 143-144: for i, output in zip(not_done, outputs): all_outputs[i] = output
Merge(ao, nd, outs) ==
    [i \in 1..Len(ao) |->
        IF \E k \in 1..Len(nd) : nd[k] = i - 1
        THEN outs[CHOOSE k \in 1..Len(nd) : nd[k] = i - 1].val
        ELSE ao[i]]

AnyFailedFirstOnly(outs) == outs # <<>> /\ outs[1] = None

\* lines 139-141: some worker returned None.
AnyFailed(outs) == \E k \in 1..Len(outs) : outs[k] = None

AllReadyOrFailed(outs) ==
    \/ \A k \in 1..Len(outs) : outs[k] # Pend
    \/ \E k \in 1..Len(outs) : outs[k] = None

AllReadyNonEmpty(outs) == outs # <<>> /\ \A k \in 1..Len(outs) : outs[k] # Pend

\* line 131: map_async(...).get() blocks until every task has its result.
AllReady(outs) == \A k \in 1..Len(outs) : outs[k] # Pend

\* lines 131-145: map_async(...).get() has every result; raise on a None, else merge.
Collect ==
    /\ pc = "pool"
    /\ AllReady(outputs)
    /\ IF AnyFailed(outputs)
       THEN /\ pc' = "raised"
            /\ UNCHANGED <<all_outputs, result>>
       ELSE /\ all_outputs' = Merge(all_outputs, not_done, outputs)
            /\ result' = <<all_outputs'>>
            /\ pc' = "returned"
    /\ UNCHANGED <<disk, callArgs, split_region_files, map_args, not_done, outputs,
                   next_task, proc, ncalls, obs, started, finished, binaryRuns>>

\* ---------------------------------------------------------------- specification
Init ==
    /\ workDir \in BOOLEAN
    /\ allRegions = <<>>
    /\ regionFiles = <<>>
    /\ unitDir = [i \in Units |-> NoDir]
    /\ pc = "idle"
    /\ restart = TRUE
    /\ num_threads = 1
    /\ binaryExists = TRUE
    /\ regions_bed = <<>>
    /\ supplied = <<>>
    /\ split_region_files = <<>>
    /\ map_args = <<>>
    /\ not_done = <<>>
    /\ all_outputs = <<>>
    /\ outputs = <<>>
    /\ next_task = 1
    /\ proc = [w \in 1..MaxThreads |-> Idle]
    /\ result = <<>>
    /\ ncalls = 0
    /\ atCall = [workDir |-> workDir, allRegions |-> <<>>, regionFiles |-> <<>>,
                 unitDir |-> [i \in Units |-> NoDir]]
    /\ globbed = <<>>
    /\ requested = <<>>
    /\ started = {}
    /\ finished = <<>>
    /\ binaryRuns = {}
    /\ prev = [pc |-> "idle", split |-> <<>>, result |-> <<>>, failed |-> {}]

Next ==
    \/ Call
    \/ \E w \in 1..MaxThreads : WorkerStart(w)
    \/ \E w \in 1..MaxThreads : WorkerScan(w)
    \/ \E w \in 1..MaxThreads : WorkerIndex(w)
    \/ \E w \in 1..MaxThreads : WorkerFinish(w)
    \/ Collect

Spec == Init /\ [][Next]_vars

\* A step of the pool or of the blocked caller: the operating system keeps running
\* the pool processes and the caller, so the step is taken if it stays possible.
PoolStep ==
    \/ \E w \in 1..MaxThreads : WorkerStart(w)
    \/ \E w \in 1..MaxThreads : WorkerScan(w)
    \/ \E w \in 1..MaxThreads : WorkerIndex(w)
    \/ \E w \in 1..MaxThreads : WorkerFinish(w)
    \/ Collect

FairSpec == Spec /\ WF_vars(PoolStep)

TypeOK ==
    /\ pc \in {"idle", "pool", "returned", "raised"}
    /\ Len(split_region_files) <= UnitSlots
    /\ Len(outputs) = Len(map_args)

\* ---------------------------------------------------------------- properties
N == Len(split_region_files)
UnitsOfCall == 0..(N - 1)
Ended == pc \in {"returned", "raised"}
Range(s) == {s[k] : k \in 1..Len(s)}
FileOfUnit(i) == ReadBed(split_region_files[i + 1], regionFiles)
AllDoneAtCall == \A i \in UnitsOfCall : OutputNames \subseteq atCall.unitDir[i].files
GlobFoundFiles == globbed # <<>> /\ globbed[1] # <<>>
FreshPaths(n) == [k \in 1..n |-> RegionPath(k - 1)]

\* C1: when scan_alignments returns, element i of the returned list is the result
\* triple of work.<i>, and it was produced by the worker that was given the i-th
\* split file, whatever the order in which the pool's workers finished.
C1_ResultOrder ==
    pc = "returned" =>
        /\ Len(result[1]) = N
        /\ \A i \in UnitsOfCall : result[1][i + 1] = Triple(i)
        /\ \A k \in 1..Len(map_args) :
              /\ outputs[k] = Value(Triple(map_args[k].work))
              /\ map_args[k].split_region_file = split_region_files[map_args[k].work + 1]

\* Two units were run and the second finished before the first.
C1_Witness == pc = "returned" /\ Len(map_args) = 2 /\ finished = <<2, 1>>

\* C2: if a submitted unit ended Failed (its worker returned None), the call raises
\* and returns no list, not even the results of the units that succeeded.
C2_FailureRaises ==
    (Ended /\ \E k \in 1..Len(outputs) : outputs[k] = None) =>
        (pc = "raised" /\ result = <<>>)

\* One unit failed and another one succeeded: the call raised.
C2_Witness ==
    /\ pc = "raised"
    /\ \E k \in 1..Len(outputs) : outputs[k] = None
    /\ \E k \in 1..Len(outputs) : outputs[k].ret = "value"

\* C3: with restart=false and every work.<i> of the list holding the three output
\* files, the call invokes no worker, leaves the work.<i> directories (and, when no
\* new partition is computed, the whole work directory) as they were, and returns
\* the paths of work.<i> in order, the same as the dispatch before it over that list.
C3_Idempotent ==
    (pc # "idle" /\ ~restart /\ AllDoneAtCall) =>
        /\ map_args = <<>>
        /\ started = {}
        /\ unitDir = atCall.unitDir
        /\ requested = <<>> => (regionFiles = atCall.regionFiles /\ allRegions = atCall.allRegions)
        /\ pc # "raised"
        /\ pc = "returned" =>
              /\ result = <<[i \in 1..N |-> Triple(i - 1)]>>
              /\ (prev.pc = "returned" /\ prev.split = split_region_files) =>
                    result = prev.result

\* A restart=false call over a fully completed list of two units returned, after a
\* call over the same list that returned.
C3_Witness ==
    /\ pc = "returned"
    /\ ~restart
    /\ N = 2
    /\ AllDoneAtCall
    /\ prev.pc = "returned"
    /\ prev.split = split_region_files

\* C4: after a call that raised, a call with restart=false over the same split list
\* submits exactly the units that failed in it; every other unit keeps its three
\* output files, untouched, and is skipped.
C4_RestartRunsFailed ==
    (pc # "idle" /\ prev.pc = "raised" /\ ~restart /\ split_region_files = prev.split) =>
        /\ Range(not_done) = prev.failed
        /\ \A i \in UnitsOfCall \ prev.failed :
              /\ OutputNames \subseteq unitDir[i].files
              /\ unitDir[i] = atCall.unitDir[i]
        /\ Ended => started = prev.failed

\* The failed run had a failed and a completed unit; the restart ran the failed one only.
C4_Witness ==
    /\ Ended
    /\ prev.pc = "raised"
    /\ ~restart
    /\ split_region_files = prev.split
    /\ prev.failed # {}
    /\ UnitsOfCall \ prev.failed # {}
    /\ started = prev.failed

\* C5 as stated: after any sequence of calls, the region.bed of every returned
\* triple holds the region of the i-th split file of the last call.
C5_RegionOfEveryUnit ==
    pc = "returned" =>
        \A i \in UnitsOfCall :
            /\ result[1][i + 1] = Triple(i)
            /\ unitDir[i].region = <<FileOfUnit(i)>>

\* C5 as amended: the i-th triple names work.<i>; region.bed holds the region of the
\* i-th split file for every unit run in this call, and a previously-Done unit keeps
\* the work.<i> it had, with the region.bed an earlier call wrote.
C5_RegionOfRunUnits ==
    pc = "returned" =>
        \A i \in UnitsOfCall :
            /\ result[1][i + 1] = Triple(i)
            /\ i \in started => unitDir[i].region = <<FileOfUnit(i)>>
            /\ i \notin started =>
                  (unitDir[i] = atCall.unitDir[i] /\ "region.bed" \in unitDir[i].files)

\* A restart mix: one unit was run, one was Done with the region of another split file.
C5_Witness ==
    /\ pc = "returned"
    /\ \E i \in UnitsOfCall : i \in started /\ unitDir[i].region = <<FileOfUnit(i)>>
    /\ \E i \in UnitsOfCall : i \notin started /\ unitDir[i].region # <<FileOfUnit(i)>>

\* C6: if the external binary does not exist, no work.<i> is deleted or created, no
\* partition file is written and no unit is started.
C6_MissingBinaryTouchesNothing ==
    (pc # "idle" /\ ~binaryExists) =>
        /\ unitDir = atCall.unitDir
        /\ regionFiles = atCall.regionFiles
        /\ allRegions = atCall.allRegions
        /\ started = {}

CeilDiv(a, b) == (a + b - 1) \div b

\* C7: the split count requested from the splitter is
\* max(ceil((total_len / 10,000,000) / num_threads) * num_threads, num_threads)
\* with exact divisions.
C7_ExactCeil ==
    requested # <<>> =>
        requested[1] =
            Max(CeilDiv(total_len(regions_bed), SplitGranularity * num_threads) * num_threads,
                num_threads)

\* C8 as stated: in every call without a caller-supplied list, the number of chunks
\* dispatched is a multiple of num_threads and at least num_threads.
C8_MultipleOfThreads ==
    (pc # "idle" /\ supplied = <<>>) => (N % num_threads = 0 /\ N >= num_threads)

\* C8 as amended: when a new partition is computed (restart is true, or the work
\* directory holds no region_*.bed), the number of chunks dispatched is the split
\* count requested, a multiple of num_threads and at least num_threads.
C8_FreshSplitMultiple ==
    (pc # "idle" /\ supplied = <<>> /\ (restart \/ atCall.regionFiles = <<>>)) =>
        /\ requested # <<>>
        /\ N = requested[1]
        /\ N % num_threads = 0
        /\ N >= num_threads

\* A new partition for two threads was dispatched although older region files existed.
C8_Witness ==
    /\ pc = "returned"
    /\ supplied = <<>>
    /\ restart
    /\ atCall.regionFiles # <<>>
    /\ num_threads = 2
    /\ requested = <<2>>

C10_LowCoverageResplit ==
    (/\ pc # "idle"
     /\ supplied = <<>>
     /\ GlobFoundFiles
     /\ ~CoversEnough(globbed[1], atCall.regionFiles, regions_bed)) =>
        /\ requested # <<>>
        /\ allRegions = <<regions_bed>>
        /\ split_region_files = FreshPaths(requested[1])


\* C11: a non-empty split list of the caller is dispatched unchanged and in the
\* caller's order: glob is not called, nothing is written to the work directory by
\* the partitioner (no all_regions.bed, no region file, not even the directory),
\* the splitter is not called, and unit i is given the caller's i-th file.
C11_SuppliedListVerbatim ==
    (pc # "idle" /\ supplied # <<>>) =>
        /\ split_region_files = supplied
        /\ globbed = <<>>
        /\ requested = <<>>
        /\ allRegions = atCall.allRegions
        /\ regionFiles = atCall.regionFiles
        /\ workDir = atCall.workDir
        /\ \A k \in 1..Len(map_args) :
              map_args[k].split_region_file = supplied[map_args[k].work + 1]

\* The caller gave two different files, the work directory held region files of an
\* earlier partition, and both units were run.
C11_Witness ==
    /\ pc = "returned"
    /\ supplied = <<CallerPath(2), CallerPath(1)>>
    /\ atCall.regionFiles # <<>>
    /\ Len(map_args) = 2

\* C12: unit i is submitted to a worker iff restart is true or one of region.bed,
\* candidates.vcf, count.bed.gz is missing from work.<i>; otherwise it is not
\* submitted, work.<i> stays as it was, and its result is the three paths in work.<i>.
C12_PendingIffRestartOrMissing ==
    pc # "idle" =>
        \A i \in UnitsOfCall :
            LET missing == \/ "region.bed" \notin atCall.unitDir[i].files
                           \/ "candidates.vcf" \notin atCall.unitDir[i].files
                           \/ "count.bed.gz" \notin atCall.unitDir[i].files
                submitted == \E k \in 1..Len(map_args) : map_args[k].work = i
            IN /\ submitted <=> (restart \/ missing)
               /\ ~submitted =>
                     /\ i \notin started
                     /\ unitDir[i] = atCall.unitDir[i]
                     /\ all_outputs[i + 1] = Triple(i)
                     /\ pc = "returned" => result[1][i + 1] = Triple(i)

\* With restart false, work.0 was complete (skipped) and work.1 held a partial run (run again).
C12_Witness ==
    /\ pc = "returned"
    /\ N = 2
    /\ ~restart
    /\ OutputNames \subseteq atCall.unitDir[0].files
    /\ atCall.unitDir[1].exists
    /\ ~(OutputNames \subseteq atCall.unitDir[1].files)
    /\ started = {1}

\* C13: the work.<i> of every Pending unit is deleted before its worker starts: a
\* task still waiting in the pool has no work.<i>, and in the step in which a worker
\* enters unit i there is no work.<i>, so nothing of an earlier run is in it.
C13_StaleDeletedBeforeStart ==
    [][/\ pc' = "pool" =>
             \A k \in next_task'..Len(map_args') : unitDir'[map_args'[k].work] = NoDir
       /\ \A i \in Units :
             (pc = "pool" /\ i \notin started /\ i \in started') =>
                 /\ unitDir[i] = NoDir
                 /\ unitDir'[i] \in {NoDir, EmptyDir}]_vars

\* A worker has entered a unit whose work.<i> held files when the call started.
C13_Witness ==
    /\ pc = "pool"
    /\ \E i \in started : atCall.unitDir[i].files # {} /\ unitDir[i] = EmptyDir

\* C14: a failed unit only yields a None: the pool goes on, every submitted unit
\* is entered and finishes with a triple or a None, and the call ends (raising or
\* returning) only when every submitted unit has finished and no process is busy.
C14_NoEarlyExit ==
    /\ Ended =>
          /\ \A k \in 1..Len(map_args) :
                /\ outputs[k] # Pend
                /\ map_args[k].work \in started
                /\ \E j \in 1..Len(finished) : finished[j] = k
          /\ \A w \in 1..MaxThreads : proc[w] = Idle
    /\ (pc = "pool" /\ AnyFailed(outputs)) =>
          \A k \in 1..Len(map_args) :
              \/ outputs[k] # Pend
              \/ k >= next_task
              \/ \E w \in 1..MaxThreads : proc[w].task = k /\ proc[w].step # "idle"

\* The call raised; the unit that failed finished first and the other unit still
\* ran to its triple afterwards.
C14_Witness ==
    /\ pc = "raised"
    /\ Len(finished) = 2
    /\ outputs[finished[1]] = None
    /\ outputs[finished[2]].ret = "value"

Busy == {w \in 1..MaxThreads : proc[w] # Idle}

\* C15: at most num_threads units are Running at any moment, a pool process works on
\* one unit at a time and two processes never work on the same unit, every unit is
\* submitted with a thread count of 1, and when the call ends every Pending unit was
\* executed exactly once.
C15_BoundedPool ==
    /\ Cardinality(Busy) <= num_threads
    /\ \A w \in Busy :
          /\ proc[w].task \in 1..Len(map_args)
          /\ outputs[proc[w].task] = Pend
          /\ proc[w].task < next_task
    /\ \A v, w \in Busy : v # w => proc[v].task # proc[w].task
    /\ \A k \in 1..Len(map_args) : map_args[k].num_threads = 1
    /\ \A x, y \in 1..Len(finished) : x # y => finished[x] # finished[y]
    /\ \A x, y \in 1..Len(not_done) : x # y => not_done[x] # not_done[y]
    /\ Ended => (Len(finished) = Len(map_args) /\ Range(finished) = 1..Len(map_args))

\* With one thread and two Pending units, one unit is Running, the other waits, and
\* the second process of the model stays idle.
C15_Witness ==
    /\ pc = "pool"
    /\ num_threads = 1
    /\ Len(map_args) = 2
    /\ Cardinality(Busy) = 1
    /\ next_task = 2

\* The unit process w works on (before or after a step), if any.
UnitOf(p) == IF p.task = 0 THEN {} ELSE {map_args[p.task].work}

\* C16: while the pool runs, two processes never work on the same work.<i>, and
\* every creation, write or deletion under work.<i> is a step of the one process
\* that is working on unit i (or that enters it in that step); the orchestrator
\* changes work.<i> directories only in the step before the pool starts.
C16_ExclusiveOwnership ==
    [][/\ \A v, w \in 1..MaxThreads :
             (v # w /\ pc = "pool") => UnitOf(proc[v]) \cap UnitOf(proc[w]) = {}
       /\ \A i \in Units :
             unitDir'[i] # unitDir[i] =>
                 \/ pc # "pool" /\ pc' = "pool" /\ started' = {}
                 \/ /\ pc = "pool"
                    /\ pc' = "pool"
                    /\ \E w \in 1..MaxThreads :
                          /\ proc'[w] # proc[w] \/ finished' # finished
                          /\ \/ i \in UnitOf(proc[w])
                             \/ (proc[w] = Idle /\ proc'[w] # Idle /\ i \in UnitOf(proc'[w]))
                          /\ \A v \in 1..MaxThreads : v # w => proc'[v] = proc[v]]_vars

\* Two processes are at work at the same time, each in its own work.<i>.
C16_Witness ==
    /\ pc = "pool"
    /\ proc[1].step = "index"
    /\ proc[2].step = "concat"
    /\ UnitOf(proc[1]) # UnitOf(proc[2])
    /\ \A w \in 1..2 : \A i \in UnitOf(proc[w]) : unitDir[i].exists

\* Tasks of the call whose region file has no interval.
EmptyTasks ==
    {k \in 1..Len(map_args) : ReadBed(map_args[k].split_region_file, regionFiles) = <<>>}

\* C17 as stated: a unit whose region file is empty never invokes the binary and,
\* whatever the state of the binary, gets its empty candidates.vcf and count table
\* (a finished unit can only have failed after them, in indexing or in writing
\* region.bed).
C17_EmptyUnitWhateverBinary ==
    (pc # "idle" /\ workDir) =>
        \A k \in EmptyTasks :
            /\ map_args[k].work \notin binaryRuns
            /\ outputs[k] = None => "candidates.vcf" \in unitDir[map_args[k].work].files

\* C17 as amended: such a unit never invokes the binary and leaves no scan log; if
\* the binary file exists it gets its empty outputs and, unless indexing or writing
\* region.bed raises, ends with candidates.vcf, the compressed and indexed count
\* table and a region.bed without intervals; if the binary file does not exist it
\* fails at the existence check and writes nothing.
C17_EmptyUnit ==
    pc # "idle" =>
        \A k \in EmptyTasks :
            LET dir == unitDir[map_args[k].work]
            IN /\ map_args[k].work \notin binaryRuns
               /\ dir.files \cap {"scan.out", "scan.err"} = {}
               /\ outputs[k].ret = "value" =>
                     /\ binaryExists
                     /\ dir.files = {"candidates.vcf", "count.bed.gz",
                                     "count.bed.gz.tbi", "region.bed"}
                     /\ dir.region = <<(<<>>)>>
               /\ (outputs[k] = None /\ binaryExists /\ workDir) =>
                     "candidates.vcf" \in dir.files
               /\ (outputs[k] # Pend /\ ~binaryExists) =>
                     (outputs[k] = None /\ dir = NoDir)

\* A unit with an empty region file ended Done.
C17_Witness ==
    /\ pc = "returned"
    /\ \E k \in EmptyTasks : outputs[k].ret = "value"

\* C18: under fair scheduling every call that has created its pool eventually
\* returns its list or raises, for any number of Pending units, zero included.
C18_DispatchEnds == (pc = "pool") ~> Ended

\* A call with no Pending unit at all has returned.
C18_Witness ==
    /\ pc = "returned"
    /\ map_args = <<>>
    /\ N > 0

\* C19: region.bed is the last file a worker writes: a work.<i> that holds
\* region.bed also holds candidates.vcf, the compressed count table and its index,
\* and no scan leftover of a failed run alone; a unit whose worker returned None
\* does not hold the three expected files, and a unit that failed in the previous
\* call is submitted again by a restart=false call.
C19_RegionBedLast ==
    /\ \A i \in Units :
          "region.bed" \in unitDir[i].files =>
              /\ {"candidates.vcf", "count.bed.gz", "count.bed.gz.tbi"} \subseteq unitDir[i].files
              /\ "count.bed" \notin unitDir[i].files
              /\ unitDir[i].region # <<>>
              /\ unitDir[i].exists
    /\ \A k \in 1..Len(map_args) :
          outputs[k] = None => ~(OutputNames \subseteq unitDir[map_args[k].work].files)
    /\ \A k \in 1..Len(map_args) :
          outputs[k] = Pend => "region.bed" \notin unitDir[map_args[k].work].files
    /\ (pc # "idle" /\ ~restart) =>
          \A i \in prev.failed \cap UnitsOfCall :
              /\ ~(OutputNames \subseteq atCall.unitDir[i].files)
              /\ i \in Range(not_done)

\* A unit failed after its count table was compressed (candidates.vcf and
\* count.bed.gz are there, region.bed is not) and the next call, with restart
\* false, has run it again.
C19_Witness ==
    /\ Ended
    /\ ~restart
    /\ \E i \in prev.failed \cap UnitsOfCall :
          /\ {"candidates.vcf", "count.bed.gz"} \subseteq atCall.unitDir[i].files
          /\ i \in started

\* C20: a normal return gives one entry per split file, each a full triple
\* (candidates.vcf, count.bed.gz, region.bed) of paths under work.<i> whose files
\* are on disk; no empty placeholder of line 109 is left, since each index was
\* either filled from disk as Done or is the index of exactly one submitted task.
C20_FullTriples ==
    pc = "returned" =>
        /\ Len(all_outputs) = Len(split_region_files)
        /\ result = <<all_outputs>>
        /\ \A i \in UnitsOfCall :
              LET t == all_outputs[i + 1]
                  filled == ~restart /\ OutputNames \subseteq atCall.unitDir[i].files
                  tasks == {k \in 1..Len(not_done) : not_done[k] = i}
              IN /\ t # <<>>
                 /\ Len(t) = 3
                 /\ \A j \in 1..3 : t[j][1] = i
                 /\ <<t[1][2], t[2][2], t[3][2]>> = <<"candidates.vcf", "count.bed.gz", "region.bed">>
                 /\ \A j \in 1..3 : t[j][2] \in unitDir[i].files
                 /\ filled <=> tasks = {}
                 /\ ~filled => Cardinality(tasks) = 1

\* A restart=false call returned a list in which one entry was filled from disk
\* and the other by a worker.
C20_Witness ==
    /\ pc = "returned"
    /\ N = 2
    /\ Len(not_done) = 1
    /\ not_done[1] = 1

====
